---------------------------- MODULE Spec2Model ----------------------------
(***************************************************************************)
(* A model of the hyperdimensional-computing prototype                     *)
(* archive/research-hdc-2025/scripts/hdc_prototype.py: the hypervector     *)
(* generator (set_seed, random_hypervector), the algebra (bundle, bind,    *)
(* cosine_similarity) and the associative memory (HDCDictionary).          *)
(*                                                                         *)
(* NumPy arrays are sequences of integers.  Arrays the program returns     *)
(* carry dtype int8 (.astype(np.int8)), so every component is kept in      *)
(* -128..127 by Wrap8.  A Python exception is the value Raise(kind); a     *)
(* normal return is Return(value).                                         *)
(***************************************************************************)
EXTENDS Integers, Sequences, FiniteSets

VARIABLES
    call,        \* the last call of an algebra operator, with its result
    items,       \* HDCDictionary.items: the dict, as (key, vector) pairs in insertion order
    ret,         \* the last call made on the memory's driver side, with its result
    lastAdded,   \* history: key -> the vector passed to the most recent add(key, _)
    firstAdded,  \* history: the keys in the order of their first add
    readded,     \* history: the keys added again, with another vector, after a later key's first add
    np_state,    \* per run: the state of NumPy's global generator
    py_state,    \* per run: the state of Python's `random` generator
    seeded,      \* per run: the seed of the last set_seed, NoSeed before any
    calls,       \* per run: the dimensions passed to random_hypervector since then
    outs         \* per run: what those calls returned

vars == <<call, items, ret, lastAdded, firstAdded, readded,
          np_state, py_state, seeded, calls, outs>>

-----------------------------------------------------------------------------
(* Bounds of the model *)

MaxLen == 2        \* the small hypervectors enumerated exhaustively have length <= MaxLen
MaxBundle == 3     \* bundle is called on at most MaxBundle vectors
MaxSeed == 1       \* set_seed is called with a seed in 0..MaxSeed
MaxCalls == 2      \* random_hypervector calls followed after one set_seed

(* Constants of the program *)

DIMENSION == 10000   \* the default dimension
Int8Max == 127       \* the largest value of np.int8

Wrap8(n) == ((n + Int8Max + 1) % (2 * (Int8Max + 1))) - (Int8Max + 1)

-----------------------------------------------------------------------------
(* Values *)

Return(v) == [err |-> "none", val |-> v]
Raise(kind) == [err |-> kind, val |-> <<>>]

VectorsOfLen(n) == [1..n -> {-1, 1}]

(* every bipolar vector of length 0..MaxLen; length 0 is what                *)
(* random_hypervector(0) returns                                             *)
Vectors == UNION {VectorsOfLen(n) : n \in 0..MaxLen}

(* the hypervectors of the data model: bipolar, of positive length *)
Hypervectors == UNION {VectorsOfLen(n) : n \in 1..MaxLen}

IsBipolar(v) == \A i \in DOMAIN v : v[i] \in {-1, 1}

(* -v on an int8 array *)
Neg(v) == [i \in DOMAIN v |-> Wrap8(-v[i])]

Ones(n) == [i \in 1..n |-> 1]
Alternating(n) == [i \in 1..n |-> IF i % 2 = 1 THEN 1 ELSE -1]

(* dimensions beyond the exhaustive ones: around the int8 range, and the default *)
BigDims == {Int8Max, Int8Max + 1, DIMENSION}
BigVectors == UNION {{Ones(n), Neg(Ones(n)), Alternating(n)} : n \in BigDims}

-----------------------------------------------------------------------------
(* Algebra *)

(* a faulty bind: np.add in place of np.multiply *)
bind_add(a, b) ==
    IF Len(a) = Len(b)
    THEN Return([i \in 1..Len(a) |-> Wrap8(a[i] + b[i])])
    ELSE IF Len(a) = 1
    THEN Return([i \in 1..Len(b) |-> Wrap8(a[1] + b[i])])
    ELSE IF Len(b) = 1
    THEN Return([i \in 1..Len(a) |-> Wrap8(a[i] + b[1])])
    ELSE Raise("ValueError")

(* np.multiply(a, b).astype(np.int8): the element-wise product under NumPy's *)
(* broadcasting: shapes (n,) and (n,) give (n,), shapes (1,) and (n,) give   *)
(* (n,), any other pair of 1-D shapes raises ValueError.                     *)
bind(a, b) ==
    IF Len(a) = Len(b)
    THEN Return([i \in 1..Len(a) |-> Wrap8(a[i] * b[i])])
    ELSE IF Len(a) = 1
    THEN Return([i \in 1..Len(b) |-> Wrap8(a[1] * b[i])])
    ELSE IF Len(b) = 1
    THEN Return([i \in 1..Len(a) |-> Wrap8(a[i] * b[1])])
    ELSE Raise("ValueError")

(* np.sum(vectors, axis=0)[i]: int8 inputs are summed in the platform integer *)
RECURSIVE ColumnSum(_, _, _)
ColumnSum(vectors, i, n) ==
    IF n = 0 THEN 0 ELSE ColumnSum(vectors, i, n - 1) + vectors[n][i]

(* a faulty bundle: summed > 0 in place of summed >= 0 *)
bundle_strict(vectors) ==
    IF vectors = <<>>
    THEN Raise("ValueError")
    ELSE Return([i \in 1..Len(vectors[1]) |->
                    IF ColumnSum(vectors, i, Len(vectors)) > 0 THEN 1 ELSE -1])

(* bundle(vectors), for a list of vectors of one length: ValueError on the   *)
(* empty list, else np.where(summed >= 0, 1, -1)                             *)
bundle(vectors) ==
    IF vectors = <<>>
    THEN Raise("ValueError")
    ELSE Return([i \in 1..Len(vectors[1]) |->
                    IF ColumnSum(vectors, i, Len(vectors)) >= 0 THEN 1 ELSE -1])

(* the exact sum of a[i] * b[i] for i in lo..hi *)
RECURSIVE SumProd(_, _, _, _)
SumProd(a, b, lo, hi) ==
    IF lo > hi THEN 0
    ELSE IF lo = hi THEN a[lo] * b[lo]
    ELSE LET mid == (lo + hi) \div 2
         IN  SumProd(a, b, lo, mid) + SumProd(a, b, mid + 1, hi)

(* np.dot(a, b) of two int8 arrays of one length: the products are summed in *)
(* a C long and the sum is stored as int8, the dtype of the operands         *)
dot(a, b) == Wrap8(SumProd(a, b, 1, Len(a)))

(* np.linalg.norm(a) ** 2: norm converts an integer array to float first,    *)
(* so the sum of squares is exact                                            *)
NormSq(a) == SumProd(a, a, 1, Len(a))

(* cosine_similarity(a, b).  The float returned is num / (sqrt(na) * sqrt(nb)), *)
(* kept as the three integers that determine it; 0 / 0 is nan.  np.dot raises   *)
(* ValueError for 1-D operands of different lengths (it does not broadcast).    *)
cosine_similarity(a, b) ==
    IF Len(a) # Len(b)
    THEN Raise("ValueError")
    ELSE Return([num |-> dot(a, b), na |-> NormSq(a), nb |-> NormSq(b)])

IsNaN(s) == s.na * s.nb = 0

(* the score s is the float x, for x in {1, -1} *)
ScoreIs(s, x) == ~IsNaN(s) /\ s.num * x > 0 /\ s.num * s.num = s.na * s.nb

SignedSq(n) == IF n >= 0 THEN n * n ELSE -(n * n)

(* s < t as floats; every comparison with nan is false *)
ScoreLess(s, t) ==
    /\ ~IsNaN(s)
    /\ ~IsNaN(t)
    /\ SignedSq(s.num) * t.na * t.nb < SignedSq(t.num) * s.na * s.nb

-----------------------------------------------------------------------------
(* The algebra's operators, called on every input of the bounded sets.  The  *)
(* operators are pure: a call depends on nothing but its arguments, so the   *)
(* calls made from the initial state are all the calls there are.            *)

NoCall == [op |-> "none"]

(* lists of 0..MaxBundle bipolar vectors of one length *)
BundleInputs ==
    UNION {[1..k -> VectorsOfLen(n)] : k \in 0..MaxBundle, n \in 0..MaxLen}

(* pairs of vectors given to cosine_similarity: every pair of small vectors, *)
(* and each big vector with itself and with its negation                     *)
CosineInputs ==
    (Vectors \X Vectors)
        \cup UNION {{<<v, v>>, <<v, Neg(v)>>} : v \in BigVectors}

MemoryIdle ==
    UNCHANGED <<items, ret, lastAdded, firstAdded, readded>>

GeneratorIdle ==
    UNCHANGED <<np_state, py_state, seeded, calls, outs>>

Bind ==
    /\ call = NoCall
    /\ \E a \in Vectors, b \in Vectors :
           call' = [op |-> "bind", a |-> a, b |-> b, out |-> bind(a, b)]
    /\ MemoryIdle
    /\ GeneratorIdle

Bundle ==
    /\ call = NoCall
    /\ \E vectors \in BundleInputs :
           call' = [op |-> "bundle", vectors |-> vectors, out |-> bundle(vectors)]
    /\ MemoryIdle
    /\ GeneratorIdle

CosineSimilarity ==
    /\ call = NoCall
    /\ \E p \in CosineInputs :
           call' = [op |-> "cosine_similarity", a |-> p[1], b |-> p[2],
                    out |-> cosine_similarity(p[1], p[2])]
    /\ MemoryIdle
    /\ GeneratorIdle

-----------------------------------------------------------------------------
(* Associative memory: HDCDictionary *)

Keys == {"farm_1", "farm_2"}

(* A Python dict keeps its keys in insertion order; it is modelled as the    *)
(* sequence of its entries [key, vec] in that order.                         *)
KeysOf(d) == {d[i].key : i \in DOMAIN d}
IndexOf(d, key) == CHOOSE i \in DOMAIN d : d[i].key = key
Lookup(d, key) == d[IndexOf(d, key)].vec

(* a faulty add: an existing key keeps its vector (dict.setdefault) *)
add_keep_first(d, key, vector) ==
    IF key \in KeysOf(d)
    THEN d
    ELSE Append(d, [key |-> key, vec |-> vector])

(* a faulty add: an existing key is removed and inserted anew, at the end *)
add_move_to_end(d, key, vector) ==
    Append(SelectSeq(d, LAMBDA e : e.key # key), [key |-> key, vec |-> vector])

(* self.items[key] = vector: an existing key keeps its place and gets the    *)
(* new vector, a new key is appended                                         *)
add(d, key, vector) ==
    IF key \in KeysOf(d)
    THEN [d EXCEPT ![IndexOf(d, key)].vec = vector]
    ELSE Append(d, [key |-> key, vec |-> vector])

(* sorted(scores, key=lambda x: x[1], reverse=True) is stable: an element    *)
(* goes before the first one whose score is less than its own, hence after   *)
(* every earlier element of equal score                                      *)
InsertDescending(s, x) ==
    LET smaller == {i \in DOMAIN s : ScoreLess(s[i][2], x[2])}
        pos == IF smaller = {} THEN Len(s) + 1
               ELSE CHOOSE i \in smaller : \A j \in smaller : i <= j
    IN  SubSeq(s, 1, pos - 1) \o <<x>> \o SubSeq(s, pos, Len(s))

RECURSIVE sorted_descending(_)
sorted_descending(scores) ==
    IF scores = <<>> THEN <<>>
    ELSE InsertDescending(sorted_descending(SubSeq(scores, 1, Len(scores) - 1)),
                          scores[Len(scores)])

RECURSIVE Reverse(_)
Reverse(s) == IF s = <<>> THEN <<>> ELSE Append(Reverse(Tail(s)), Head(s))

(* the list comprehension of query: (key, cosine_similarity(vector, stored)) *)
(* for every entry in the dict's order; the first exception ends the call    *)
Scored(d, vector) ==
    [i \in DOMAIN d |-> cosine_similarity(vector, d[i].vec)]

(* a faulty query: sorted without reverse=True *)
query_ascending(d, vector) ==
    LET cs == Scored(d, vector)
    IN  IF \E i \in DOMAIN cs : cs[i].err # "none"
        THEN Raise("ValueError")
        ELSE Return(Reverse(sorted_descending(
                 [i \in DOMAIN d |-> <<d[i].key, cs[i].val>>])))

(* a faulty query: entries of another length are skipped, nothing is raised *)
query_skip_mismatched(d, vector) ==
    LET same == SelectSeq(d, LAMBDA e : Len(e.vec) = Len(vector))
        cs == Scored(same, vector)
    IN  Return(sorted_descending([i \in DOMAIN same |-> <<same[i].key, cs[i].val>>]))

(* query(vector) on the dict d *)
query(d, vector) ==
    LET cs == Scored(d, vector)
    IN  IF \E i \in DOMAIN cs : cs[i].err # "none"
        THEN Raise("ValueError")
        ELSE Return(sorted_descending([i \in DOMAIN d |-> <<d[i].key, cs[i].val>>]))

(* memory.add(key, vector) *)
Add ==
    /\ \E key \in Keys, vector \in Hypervectors :
          /\ items' = add(items, key, vector)
          /\ ret' = [op |-> "add", key |-> key, vector |-> vector, out |-> Return(<<>>)]
          /\ lastAdded' = [k \in DOMAIN lastAdded \cup {key} |->
                               IF k = key THEN vector ELSE lastAdded[k]]
          /\ firstAdded' = IF key \in DOMAIN lastAdded
                           THEN firstAdded ELSE Append(firstAdded, key)
          /\ readded' = IF /\ key \in DOMAIN lastAdded
                           /\ lastAdded[key] # vector
                           /\ firstAdded[Len(firstAdded)] # key
                        THEN readded \cup {key} ELSE readded
    /\ UNCHANGED call
    /\ GeneratorIdle

(* memory.query(vector) *)
Query ==
    /\ \E vector \in Hypervectors :
          ret' = [op |-> "query", vector |-> vector, out |-> query(items, vector)]
    /\ UNCHANGED <<call, items, lastAdded, firstAdded, readded>>
    /\ GeneratorIdle

(* the stored vectors of the keys in K, in the dict's order *)
StoredOf(d, K) ==
    LET kept == SelectSeq(d, LAMBDA e : e.key \in K)
    IN  [i \in DOMAIN kept |-> kept[i].vec]

(* bundle(...) called by the memory's driver on stored records of one length, *)
(* or on no record at all                                                     *)
BundleStored ==
    /\ \E K \in SUBSET KeysOf(items) :
          LET vectors == StoredOf(items, K)
          IN  /\ \A i, j \in DOMAIN vectors : Len(vectors[i]) = Len(vectors[j])
              /\ ret' = [op |-> "bundle", vectors |-> vectors, out |-> bundle(vectors)]
    /\ UNCHANGED <<call, items, lastAdded, firstAdded, readded>>
    /\ GeneratorIdle

-----------------------------------------------------------------------------
(* Hypervector generator *)

(* Two runs of the program, each a process with its own global generators *)
Runs == {1, 2}

NoSeed == 0 - 1
Seeds == 0..MaxSeed

(* NumPy's global RandomState is a deterministic generator: a state, a       *)
(* seeding function and a step function.  Its 19937-bit state is abstracted  *)
(* to the 16 states of a full-period linear congruential generator.          *)
RngStates == 0..15
NextState(s) == (5 * s + 3) % 16
SeedState(seed) == (11 * seed + 5) % 16

(* before any seeding a process draws its state from the operating system *)
EntropyStates == {3, 12}

RECURSIVE Advance(_, _)
Advance(s, n) == IF n = 0 THEN s ELSE Advance(NextState(s), n - 1)

(* one draw of np.random.choice([-1, 1]) in state s *)
Choice(s) == IF s >= 8 THEN 1 ELSE -1

(* np.random.choice([-1, 1], size=dimension).astype(np.int8) in state s:     *)
(* what the call returns, and the state it leaves.  A negative size raises   *)
(* ValueError before any draw; size 0 gives the empty array.                 *)
random_hypervector(s, dimension) ==
    IF dimension < 0
    THEN [out |-> Raise("ValueError"), state |-> s]
    ELSE [out |-> Return([i \in 1..dimension |-> Wrap8(Choice(Advance(s, i)))]),
          state |-> Advance(s, dimension)]

(* a faulty set_seed: np.random.seed(seed) left out *)
set_seed_python_only(r, seed) ==
    /\ py_state' = [py_state EXCEPT ![r] = SeedState(seed)]
    /\ UNCHANGED np_state
    /\ seeded' = [seeded EXCEPT ![r] = seed]
    /\ calls' = [calls EXCEPT ![r] = <<>>]
    /\ outs' = [outs EXCEPT ![r] = <<>>]

(* set_seed(seed) in run r *)
set_seed(r, seed) ==
    /\ py_state' = [py_state EXCEPT ![r] = SeedState(seed)]
    /\ np_state' = [np_state EXCEPT ![r] = SeedState(seed)]
    /\ seeded' = [seeded EXCEPT ![r] = seed]
    /\ calls' = [calls EXCEPT ![r] = <<>>]
    /\ outs' = [outs EXCEPT ![r] = <<>>]

SetSeed ==
    /\ \E r \in Runs, seed \in Seeds : set_seed(r, seed)
    /\ UNCHANGED call
    /\ MemoryIdle

(* random_hypervector(dimension) in run r *)
RandomHypervector ==
    /\ \E r \in Runs, dimension \in (0 - 1)..MaxLen :
          /\ Len(calls[r]) < MaxCalls
          /\ LET got == random_hypervector(np_state[r], dimension)
             IN  /\ np_state' = [np_state EXCEPT ![r] = got.state]
                 /\ calls' = [calls EXCEPT ![r] = Append(@, dimension)]
                 /\ outs' = [outs EXCEPT ![r] = Append(@, got.out)]
          /\ UNCHANGED <<py_state, seeded>>
    /\ UNCHANGED call
    /\ MemoryIdle

-----------------------------------------------------------------------------
(* Specifications *)

Init ==
    /\ call = NoCall
    /\ items = <<>>
    /\ ret = NoCall
    /\ lastAdded = <<>>
    /\ firstAdded = <<>>
    /\ readded = {}
    /\ np_state \in [Runs -> EntropyStates]
    /\ py_state \in [Runs -> EntropyStates]
    /\ seeded = [r \in Runs |-> NoSeed]
    /\ calls = [r \in Runs |-> <<>>]
    /\ outs = [r \in Runs |-> <<>>]

(* The generator's state plays no part in the algebra or in the memory: one  *)
(* initial state of it stands for all.                                       *)
InitOneEntropy ==
    /\ call = NoCall
    /\ items = <<>>
    /\ ret = NoCall
    /\ lastAdded = <<>>
    /\ firstAdded = <<>>
    /\ readded = {}
    /\ np_state = [r \in Runs |-> CHOOSE e \in EntropyStates : TRUE]
    /\ py_state = [r \in Runs |-> CHOOSE e \in EntropyStates : TRUE]
    /\ seeded = [r \in Runs |-> NoSeed]
    /\ calls = [r \in Runs |-> <<>>]
    /\ outs = [r \in Runs |-> <<>>]

NextAlgebra == Bind \/ Bundle \/ CosineSimilarity
NextMemory == Add \/ Query \/ BundleStored
NextGenerator == SetSeed \/ RandomHypervector

Next == NextAlgebra \/ NextMemory \/ NextGenerator

(* The three components share no state; each is checked on its own. *)
SpecAlgebra == InitOneEntropy /\ [][NextAlgebra]_vars
SpecMemory == InitOneEntropy /\ [][NextMemory]_vars
SpecGenerator == Init /\ [][NextGenerator]_vars
Spec == Init /\ [][Next]_vars

-----------------------------------------------------------------------------
(* Properties of the algebra, under SpecAlgebra *)

(* C1: bind is self-inverse: for bipolar a and b of equal length,            *)
(* bind(bind(a, b), b) returns a, component for component.                   *)
C1_BindSelfInverse ==
    (/\ call.op = "bind"
     /\ IsBipolar(call.a)
     /\ IsBipolar(call.b)
     /\ Len(call.a) = Len(call.b))
        => /\ call.out.err = "none"
           /\ bind(call.out.val, call.b) = Return(call.a)

(* bind was called on two different vectors of the largest length, and       *)
(* changed its first argument                                                *)
C1_Witness ==
    /\ call.op = "bind"
    /\ Len(call.a) = MaxLen
    /\ Len(call.b) = MaxLen
    /\ call.a # call.b
    /\ call.out.err = "none"
    /\ call.out.val # call.a

PlusCount(vectors, i) == Cardinality({n \in DOMAIN vectors : vectors[n][i] = 1})
MinusCount(vectors, i) == Cardinality({n \in DOMAIN vectors : vectors[n][i] = -1})

(* C4: bundle is the component-wise majority vote with ties resolved to +1:  *)
(* on a non-empty list of bipolar vectors of one length, component i of the  *)
(* result is +1 when at least as many inputs hold +1 as hold -1 at i (their  *)
(* sum is >= 0) and -1 otherwise; bundling [v, -v] gives all +1.             *)
C4_BundleMajority ==
    (call.op = "bundle" /\ call.vectors # <<>>)
        => /\ call.out.err = "none"
           /\ Len(call.out.val) = Len(call.vectors[1])
           /\ \A i \in DOMAIN call.out.val :
                 call.out.val[i] =
                     IF PlusCount(call.vectors, i) >= MinusCount(call.vectors, i)
                     THEN 1 ELSE -1
           /\ (Len(call.vectors) = 2 /\ call.vectors[2] = Neg(call.vectors[1]))
                 => \A i \in DOMAIN call.out.val : call.out.val[i] = 1

(* bundle was called on [v, -v] for a v of the largest length holding both   *)
(* signs, and returned all +1                                                *)
C4_Witness ==
    /\ call.op = "bundle"
    /\ Len(call.vectors) = 2
    /\ Len(call.vectors[1]) = MaxLen
    /\ call.vectors[2] = Neg(call.vectors[1])
    /\ \E i, j \in DOMAIN call.vectors[1] : call.vectors[1][i] # call.vectors[1][j]
    /\ call.out = Return(Ones(MaxLen))

(* C5: for every bipolar v of length D > 0 held as int8, the dot product     *)
(* inside cosine_similarity(v, v) is D and the result is 1.0, and for        *)
(* cosine_similarity(v, -v) they are -D and -1.0.                            *)
C5_CosineOfSelfAndNegation ==
    (/\ call.op = "cosine_similarity"
     /\ Len(call.a) > 0
     /\ IsBipolar(call.a))
        => /\ call.b = call.a
                 => /\ call.out.err = "none"
                    /\ call.out.val.num = Len(call.a)
                    /\ ScoreIs(call.out.val, 1)
           /\ call.b = Neg(call.a)
                 => /\ call.out.err = "none"
                    /\ call.out.val.num = -Len(call.a)
                    /\ ScoreIs(call.out.val, -1)

(* C6: bind(a, b) raises for every pair of vectors of different lengths,     *)
(* also when one of them has length 1; it returns no vector then.            *)
C6_BindRejectsDifferentLengths ==
    (call.op = "bind" /\ Len(call.a) # Len(call.b))
        => call.out.err = "ValueError"

-----------------------------------------------------------------------------
(* Properties of the associative memory, under SpecMemory *)

(* C2: add is last-write-wins: the memory holds exactly one entry per key    *)
(* ever added, and the vector under each key is the one passed to the most   *)
(* recent add for that key (so an add for one key leaves every other key's   *)
(* vector as it was).                                                        *)
C2_AddLastWriteWins ==
    /\ KeysOf(items) = DOMAIN lastAdded
    /\ Len(items) = Cardinality(DOMAIN lastAdded)
    /\ \A i \in DOMAIN items : items[i].vec = lastAdded[items[i].key]

(* the last call re-added, with another vector, a key that has a later key   *)
(* beside it in the memory                                                   *)
C2_Witness ==
    /\ ret.op = "add"
    /\ ret.key \in readded
    /\ Len(items) = Cardinality(Keys)
    /\ items[1].key = ret.key
    /\ items[1].vec = ret.vector
    /\ Len(items[2].vec) # Len(ret.vector)

SameLengthAsStored(d, vector) ==
    \A i \in DOMAIN d : Len(d[i].vec) = Len(vector)

(* C3: for a query vector of the length of every stored vector, query        *)
(* returns, without raising, exactly one (key, score) pair per stored key,   *)
(* the score being cosine_similarity(query vector, stored vector), with the  *)
(* scores non-increasing; on the empty memory it returns the empty list.     *)
C3_QueryRanksEveryEntry ==
    (ret.op = "query" /\ SameLengthAsStored(items, ret.vector))
        => /\ ret.out.err = "none"
           /\ Len(ret.out.val) = Len(items)
           /\ {ret.out.val[i][1] : i \in DOMAIN ret.out.val} = KeysOf(items)
           /\ \A i \in DOMAIN ret.out.val :
                 ret.out.val[i][2] =
                     cosine_similarity(ret.vector, Lookup(items, ret.out.val[i][1])).val
           /\ \A i, j \in DOMAIN ret.out.val :
                 i < j => ~ScoreLess(ret.out.val[i][2], ret.out.val[j][2])
           /\ items = <<>> => ret.out.val = <<>>

(* a query ranked the entry added second strictly above the one added first *)
C3_Witness ==
    /\ ret.op = "query"
    /\ ret.out.err = "none"
    /\ Len(items) = Cardinality(Keys)
    /\ Len(ret.out.val) = Cardinality(Keys)
    /\ ret.out.val[1][1] = items[2].key
    /\ ScoreLess(ret.out.val[2][2], ret.out.val[1][2])

(* C8: argument errors leave the memory untouched: bundle of an empty list   *)
(* raises, query with a vector whose length differs from a stored vector's   *)
(* raises, and the key-to-vector mapping after either call is the one before. *)
C8_FailedCallsLeaveMemory ==
    [][/\ (ret'.op = "bundle" /\ ret'.vectors = <<>>)
              => (ret'.out.err = "ValueError" /\ items' = items)
       /\ (ret'.op = "query" /\ ~SameLengthAsStored(items, ret'.vector))
              => (ret'.out.err = "ValueError" /\ items' = items)]_vars

(* a query raised on a memory holding every key, one of them under a vector  *)
(* of the query's length                                                     *)
C8_Witness ==
    /\ ret.op = "query"
    /\ ret.out.err = "ValueError"
    /\ Len(items) = Cardinality(Keys)
    /\ \E i \in DOMAIN items : Len(items[i].vec) = Len(ret.vector)
    /\ items = [i \in DOMAIN items |->
                   [key |-> firstAdded[i], vec |-> lastAdded[firstAdded[i]]]]

Position(s, x) == CHOOSE i \in DOMAIN s : s[i] = x

ScoreEqual(s, t) == ~IsNaN(s) /\ ~IsNaN(t) /\ ~ScoreLess(s, t) /\ ~ScoreLess(t, s)

(* C10: two entries of a query result with equal scores stand in the order   *)
(* in which their keys were first added; re-adding a key with a new vector   *)
(* does not move it in that order.                                           *)
C10_TiesInFirstAddOrder ==
    (ret.op = "query" /\ ret.out.err = "none")
        => \A i, j \in DOMAIN ret.out.val :
              (i < j /\ ScoreEqual(ret.out.val[i][2], ret.out.val[j][2]))
                  => Position(firstAdded, ret.out.val[i][1])
                         < Position(firstAdded, ret.out.val[j][1])

(* a query result holds a tie whose first entry is a key that was re-added,  *)
(* with a new vector, after the other key's first add                        *)
C10_Witness ==
    /\ ret.op = "query"
    /\ ret.out.err = "none"
    /\ Len(ret.out.val) = Cardinality(Keys)
    /\ ScoreEqual(ret.out.val[1][2], ret.out.val[2][2])
    /\ ret.out.val[1][1] \in readded
    /\ items[1].vec # items[2].vec

-----------------------------------------------------------------------------
(* Properties of the generator, under SpecGenerator *)

SamePrefix(s, t, n) == SubSeq(s, 1, n) = SubSeq(t, 1, n)

(* C7: generation is deterministic given the seed: two runs that called      *)
(* set_seed with the same seed and then made the same random_hypervector     *)
(* calls hold identical vectors at every position, and every vector returned *)
(* for a dimension D has length D and components -1 or +1.                   *)
C7_SeededRunsAgree ==
    /\ \A r1, r2 \in Runs :
          (seeded[r1] # NoSeed /\ seeded[r1] = seeded[r2])
              => \A n \in DOMAIN calls[r1] \cap DOMAIN calls[r2] :
                    SamePrefix(calls[r1], calls[r2], n) => outs[r1][n] = outs[r2][n]
    /\ \A r \in Runs : \A n \in DOMAIN outs[r] :
          outs[r][n].err = "none"
              => /\ Len(outs[r][n].val) = calls[r][n]
                 /\ IsBipolar(outs[r][n].val)

(* both runs were seeded alike and then made the same MaxCalls calls, each   *)
(* for a vector of positive length, the first of the largest                 *)
C7_Witness ==
    /\ seeded[1] # NoSeed
    /\ seeded[1] = seeded[2]
    /\ Len(calls[1]) = MaxCalls
    /\ calls[1] = calls[2]
    /\ calls[1][1] = MaxLen
    /\ \A n \in DOMAIN calls[1] : calls[1][n] >= 1
    /\ outs[1] = outs[2]

(* C9: random_hypervector(dimension) raises for every dimension that is not  *)
(* a positive integer, 0 and the negative ones included; it returns a vector *)
(* only for dimension >= 1.                                                  *)
C9_NonPositiveDimensionRaises ==
    \A r \in Runs : \A n \in DOMAIN calls[r] :
        /\ calls[r][n] < 1 => outs[r][n].err = "ValueError"
        /\ outs[r][n].err = "none" => calls[r][n] >= 1

=============================================================================
